---------------------------- MODULE Spec2Model ----------------------------
(***************************************************************************)
(* Model of olis-iot-notifier.ino: an ESP8266 sketch that watches one      *)
(* digital input, debounces it with a turn-on (TON) and a turn-off (TOF)   *)
(* timer and sends a webhook notification on every confirmed transition.   *)
(*                                                                         *)
(* The sketch is single threaded: setup() runs once, then loop() runs      *)
(* forever.  pc is the position of that one thread.  loop() is cut into    *)
(* its blocks (sample and edge, TON, TOF, LED, WiFi check, delay), and a   *)
(* timer block into the expiry with its assignments and the send that      *)
(* follows them, so that every intermediate point of a cycle is a state of *)
(* the model; the pieces are strictly sequenced by pc.                     *)
(*                                                                         *)
(* now is the clock millis() reads.  It advances in the delay() calls and  *)
(* in the wait loop of connect_to_wifi(); the code between them is taken   *)
(* to run in no time.                                                      *)
(*                                                                         *)
(* millis() is an unsigned long, 32 bits on the ESP8266.  A 32-bit value   *)
(* is kept as two 16-bit limbs <<hi, lo>> because the model checker's      *)
(* integers are signed 32-bit; all arithmetic is modulo 2^32.              *)
(***************************************************************************)
EXTENDS Integers, Sequences, FiniteSets, TLC

VARIABLES
    pc,                     \* position of the single thread
    now,                    \* the clock millis() reads (32-bit)
    led_state,              \* line 32
    led_pin,                \* level last written to LED_BUILTIN
    current_led_millis,     \* line 33
    previous_led_millis,    \* line 34
    response,               \* line 41
    ton_threshold,          \* line 48
    tof_threshold,          \* line 49
    last_state,             \* line 44
    new_state,              \* line 45
    ton_start_marker,       \* line 50
    tof_start_marker,       \* line 51
    TON_running,            \* line 52
    TOF_running,            \* line 53
    approved_alarm_state,   \* line 54
    sent,                   \* history: the labels handed to webhookTrigger, in order
    cycle,                  \* history: number of loop() cycles started
    at_cycle_start,         \* history: the debounce state when the current cycle began
    ton_samples,            \* history: the samples read since the turn-on timer was started
    tof_samples,            \* history: the samples read since the turn-off timer was started
    reconnects,             \* history: calls of connect_to_wifi() made by the current network check
    held                    \* history: ms for which the sampled input has differed from the confirmed state

vars == <<pc, now, led_state, led_pin, current_led_millis, previous_led_millis,
          response, last_state, new_state, ton_start_marker, tof_start_marker,
          TON_running, TOF_running, approved_alarm_state, sent, cycle,
          at_cycle_start, ton_threshold, tof_threshold, ton_samples,
          tof_samples, reconnects, held>>

\* what no step of the program assigns: the thresholds
thresholds == <<ton_threshold, tof_threshold>>
\* the sample histories, which only the sampling step extends
samples == <<ton_samples, tof_samples>>
\* the histories of the network check and of the input level
history == <<reconnects, held>>

----------------------------------------------------------------------------
(* Bounds of the model *)

\* loop() cycles explored
MaxCycles == 8
\* WiFi reconnections explored over the whole run, the one of setup() included
MaxConnects == 3

----------------------------------------------------------------------------
(* Program constants *)

ton_threshold_ms == 1800
tof_threshold_ms == 1600
led_interval == 100
loop_delay == 100
SetupDelay == 1000
ConnectDelay == 1000
WaitDelay == 500
HTTP_OK == 200

LOW == "LOW"
HIGH == "HIGH"

PowerOnLabel == "Notifier_powered_and_running!"
OpenLabel == "Pump-relay_circuit_OPEN!"
ClosedLabel == "Pump-relay_circuit_CLOSED_OK!"
WifiLabel == "Pump-relay_connected_to_WiFi!"

\* what http.GET() can return: 200, or anything else (here a client error)
HttpCodes == {HTTP_OK, -1}

----------------------------------------------------------------------------
(* unsigned long: 32-bit arithmetic on two 16-bit limbs *)

Limb == 2^16

\* the 32-bit value of a small natural number
U32(n) == <<(n \div Limb) % Limb, n % Limb>>

\* a + b modulo 2^32
Plus32(a, b) ==
    LET lo == a[2] + b[2]
        hi == a[1] + b[1] + (lo \div Limb)
    IN  <<hi % Limb, lo % Limb>>

\* mutant: a subtraction that does not wrap: 0 when a < b
Minus32Saturating(a, b) ==
    LET lo == a[2] - b[2]
        borrow == IF lo < 0 THEN 1 ELSE 0
        hi == a[1] - b[1] - borrow
    IN  IF hi < 0 THEN <<0, 0>> ELSE <<hi, (lo + Limb) % Limb>>

\* a - b modulo 2^32, as unsigned subtraction computes it
Minus32(a, b) ==
    LET lo == a[2] - b[2]
        borrow == IF lo < 0 THEN 1 ELSE 0
        hi == a[1] - b[1] - borrow
    IN  <<(hi + Limb) % Limb, (lo + Limb) % Limb>>

\* a >= n for a 32-bit a and a threshold n < 2^16
AtLeast(a, n) == a[1] > 0 \/ a[2] >= n

\* the number a 32-bit a < 2^16 stands for
Small(a) == a[2]

\* the wait loop of connect_to_wifi (lines 201-204) runs until the network is
\* there: no iteration or one, or, in setup(), 2^32 - 3296 ms of them (some
\* 49.7 days), so that the clock is about to wrap when loop() starts
WaitIterations == {0, 1}
ShortWaits == {U32(WaitDelay * k) : k \in WaitIterations}
LongWait == <<65535, 62240>>
\* the waits of the connection made by setup(): none, or the long one (a short
\* wait there only shifts the clock of everything that follows)
SetupWaits == {U32(0), LongWait}

----------------------------------------------------------------------------
(* The debounce state as the specification names it *)

DebounceState ==
    [approved |-> approved_alarm_state, TON |-> TON_running, TOF |-> TOF_running,
     last |-> last_state, ton_marker |-> ton_start_marker,
     tof_marker |-> tof_start_marker, nsent |-> Len(sent), time |-> now]

Cleared == ~approved_alarm_state /\ ~TON_running /\ ~TOF_running
Confirming == ~approved_alarm_state /\ TON_running
Armed == approved_alarm_state /\ ~TON_running /\ ~TOF_running
Clearing == approved_alarm_state /\ TOF_running

\* the labels sent since the current cycle began
SentThisCycle == SubSeq(sent, at_cycle_start.nsent + 1, Len(sent))

Count(s, label) == Cardinality({i \in 1..Len(s) : s[i] = label})

TypeOK ==
    /\ pc \in {"setup_wifi", "setup_input", "setup_notify",
               "sample", "ton", "ton_send", "tof", "tof_send", "led", "wifi",
               "delay"}
    /\ now \in (0..(Limb - 1)) \X (0..(Limb - 1))
    /\ led_state \in {LOW, HIGH}
    /\ led_pin \in {LOW, HIGH}
    /\ response \in HttpCodes \cup {0}
    /\ last_state \in BOOLEAN /\ new_state \in BOOLEAN
    /\ TON_running \in BOOLEAN /\ TOF_running \in BOOLEAN
    /\ approved_alarm_state \in BOOLEAN
    /\ cycle \in 0..MaxCycles
    /\ ton_samples \subseteq BOOLEAN /\ tof_samples \subseteq BOOLEAN
    /\ reconnects \in 0..MaxConnects
    /\ held \in Nat

----------------------------------------------------------------------------
(* Initial state: the globals as the C++ runtime initialises them *)

InitGlobals ==
    /\ pc = "setup_wifi"
    /\ now = U32(0)
    /\ led_state = LOW
    /\ led_pin = LOW
    /\ current_led_millis = U32(0)
    /\ previous_led_millis = U32(0)
    /\ response = 0
    /\ last_state = FALSE
    /\ new_state = FALSE
    /\ ton_start_marker = U32(0)
    /\ tof_start_marker = U32(0)
    /\ TON_running = FALSE
    /\ TOF_running = FALSE
    /\ approved_alarm_state = FALSE
    /\ sent = <<>>
    /\ cycle = 0
    /\ at_cycle_start = [approved |-> FALSE, TON |-> FALSE, TOF |-> FALSE,
                         last |-> FALSE, ton_marker |-> U32(0),
                         tof_marker |-> U32(0), nsent |-> 0, time |-> U32(0)]
    /\ ton_samples = {}
    /\ tof_samples = {}
    /\ reconnects = 0
    /\ held = 0

\* the sketch as written: lines 48-49
Init ==
    /\ InitGlobals
    /\ ton_threshold = ton_threshold_ms
    /\ tof_threshold = tof_threshold_ms

\* the sketch with its two thresholds configured differently, zero included
ThresholdChoices ==
    {0, ton_threshold_ms} \X {0, tof_threshold_ms}

InitAnyThreshold ==
    /\ InitGlobals
    /\ \E choice \in ThresholdChoices :
          /\ ton_threshold = choice[1]
          /\ tof_threshold = choice[2]

\* the sketch as written, and with the turn-on delay switched off
TurnOnChoices == {0, ton_threshold_ms}

InitAnyTurnOn ==
    /\ InitGlobals
    /\ ton_threshold \in TurnOnChoices
    /\ tof_threshold = tof_threshold_ms

----------------------------------------------------------------------------
(* Helping functions *)

\* webhookTrigger(value), with the assignment of its result to response that
\* every call site makes
WebhookTrigger(value, httpCode) ==
    /\ sent' = Append(sent, value)
    /\ response' = httpCode

\* mutant: the power-on notification sent from connect_to_wifi(), so that
\* every reconnection repeats it
ConnectToWifiAnnouncesPowerOn(wait, httpCode) ==
    /\ now' = Plus32(Plus32(now, U32(ConnectDelay)), wait)
    /\ led_pin' = HIGH
    /\ sent' = Append(Append(sent, WifiLabel), PowerOnLabel)
    /\ response' = httpCode

\* connect_to_wifi(): LED low, delay(1000), wait until connected, LED high,
\* send the notification
ConnectToWifi(wait, httpCode) ==
    /\ now' = Plus32(Plus32(now, U32(ConnectDelay)), wait)
    /\ led_pin' = HIGH
    /\ WebhookTrigger(WifiLabel, httpCode)

\* mutant: the turn-on timer compared with the turn-off threshold
TonExpiredWrongThreshold(t) ==
    AtLeast(Minus32(t, ton_start_marker), tof_threshold)

\* mutant: > in place of >=
TonExpiredStrict(t) ==
    LET elapsed == Minus32(t, ton_start_marker)
    IN  elapsed[1] > 0 \/ elapsed[2] > ton_threshold

\* line 144: millis()-ton_start_marker >= ton_threshold, millis() being t
TonExpired(t) == AtLeast(Minus32(t, ton_start_marker), ton_threshold)

\* mutant: the turn-off timer measured from the turn-on marker
TofExpiredWrongMarker(t) ==
    AtLeast(Minus32(t, ton_start_marker), tof_threshold)

\* mutant: > in place of >=
TofExpiredStrict(t) ==
    LET elapsed == Minus32(t, tof_start_marker)
    IN  elapsed[1] > 0 \/ elapsed[2] > tof_threshold

\* line 158: millis()-tof_start_marker >= tof_threshold, millis() being t
TofExpired(t) == AtLeast(Minus32(t, tof_start_marker), tof_threshold)

\* mutant: the falling edge before approval (lines 132-136) does not stop the
\* turn-on timer
EdgeDetectionKeepsTon(raw, t) ==
    CASE raw /\ ~approved_alarm_state ->
            [TON |-> TRUE, TOF |-> FALSE,
             ton_marker |-> t, tof_marker |-> tof_start_marker]
      [] raw /\ approved_alarm_state ->
            [TON |-> FALSE, TOF |-> FALSE,
             ton_marker |-> ton_start_marker, tof_marker |-> tof_start_marker]
      [] ~raw /\ approved_alarm_state ->
            [TON |-> FALSE, TOF |-> TRUE,
             ton_marker |-> ton_start_marker, tof_marker |-> t]
      [] ~raw /\ ~approved_alarm_state ->
            [TON |-> TON_running, TOF |-> FALSE,
             ton_marker |-> ton_start_marker, tof_marker |-> tof_start_marker]

\* mutant: the falling edge after approval (lines 123-128) sets both flags
EdgeDetectionBothTimers(raw, t) ==
    CASE raw /\ ~approved_alarm_state ->
            [TON |-> TRUE, TOF |-> FALSE,
             ton_marker |-> t, tof_marker |-> tof_start_marker]
      [] raw /\ approved_alarm_state ->
            [TON |-> FALSE, TOF |-> FALSE,
             ton_marker |-> ton_start_marker, tof_marker |-> tof_start_marker]
      [] ~raw /\ approved_alarm_state ->
            [TON |-> TRUE, TOF |-> TRUE,
             ton_marker |-> ton_start_marker, tof_marker |-> t]
      [] ~raw /\ ~approved_alarm_state ->
            [TON |-> FALSE, TOF |-> FALSE,
             ton_marker |-> ton_start_marker, tof_marker |-> tof_start_marker]

\* mutant: the expiry wins over the edge: a flip-back does not stop a timer
\* that has already run for its threshold
EdgeDetectionExpiryWins(raw, t) ==
    CASE raw /\ ~approved_alarm_state ->
            [TON |-> TRUE, TOF |-> FALSE,
             ton_marker |-> t, tof_marker |-> tof_start_marker]
      [] raw /\ approved_alarm_state ->
            [TON |-> FALSE, TOF |-> TOF_running /\ TofExpired(t),
             ton_marker |-> ton_start_marker, tof_marker |-> tof_start_marker]
      [] ~raw /\ approved_alarm_state ->
            [TON |-> FALSE, TOF |-> TRUE,
             ton_marker |-> ton_start_marker, tof_marker |-> t]
      [] ~raw /\ ~approved_alarm_state ->
            [TON |-> TON_running /\ TonExpired(t), TOF |-> FALSE,
             ton_marker |-> ton_start_marker, tof_marker |-> tof_start_marker]

\* mutant: the rising edge after approval (lines 115-119) starts the turn-on
\* timer again
EdgeDetectionRearms(raw, t) ==
    CASE raw /\ ~approved_alarm_state ->
            [TON |-> TRUE, TOF |-> FALSE,
             ton_marker |-> t, tof_marker |-> tof_start_marker]
      [] raw /\ approved_alarm_state ->
            [TON |-> TRUE, TOF |-> FALSE,
             ton_marker |-> t, tof_marker |-> tof_start_marker]
      [] ~raw /\ approved_alarm_state ->
            [TON |-> FALSE, TOF |-> TRUE,
             ton_marker |-> ton_start_marker, tof_marker |-> t]
      [] ~raw /\ ~approved_alarm_state ->
            [TON |-> FALSE, TOF |-> FALSE,
             ton_marker |-> ton_start_marker, tof_marker |-> tof_start_marker]

\* mutant: the falling edge before approval (lines 132-136) starts the
\* turn-off timer
EdgeDetectionClearsUnarmed(raw, t) ==
    CASE raw /\ ~approved_alarm_state ->
            [TON |-> TRUE, TOF |-> FALSE,
             ton_marker |-> t, tof_marker |-> tof_start_marker]
      [] raw /\ approved_alarm_state ->
            [TON |-> FALSE, TOF |-> FALSE,
             ton_marker |-> ton_start_marker, tof_marker |-> tof_start_marker]
      [] ~raw /\ approved_alarm_state ->
            [TON |-> FALSE, TOF |-> TRUE,
             ton_marker |-> ton_start_marker, tof_marker |-> t]
      [] ~raw /\ ~approved_alarm_state ->
            [TON |-> FALSE, TOF |-> TRUE,
             ton_marker |-> ton_start_marker, tof_marker |-> t]

\* lines 106-136: the four branches taken on an edge, new_state being raw and
\* millis() being t; the timer flags and start markers they leave
EdgeDetection(raw, t) ==
    CASE raw /\ ~approved_alarm_state ->
            [TON |-> TRUE, TOF |-> FALSE,
             ton_marker |-> t, tof_marker |-> tof_start_marker]
      [] raw /\ approved_alarm_state ->
            [TON |-> FALSE, TOF |-> FALSE,
             ton_marker |-> ton_start_marker, tof_marker |-> tof_start_marker]
      [] ~raw /\ approved_alarm_state ->
            [TON |-> FALSE, TOF |-> TRUE,
             ton_marker |-> ton_start_marker, tof_marker |-> t]
      [] ~raw /\ ~approved_alarm_state ->
            [TON |-> FALSE, TOF |-> FALSE,
             ton_marker |-> ton_start_marker, tof_marker |-> tof_start_marker]

\* mutant: the LED blinks only while no timer runs
LedBlinksOnlyWhenIdle == approved_alarm_state /\ ~TOF_running

\* line 231: the condition under which the LED blinks
LedBlinks == approved_alarm_state

\* toggle_inbuilt_led_fast(), millis() being t
ToggleInbuiltLedFast(t) ==
    /\ IF LedBlinks
       THEN /\ current_led_millis' = t
            /\ IF AtLeast(Minus32(t, previous_led_millis), led_interval)
               THEN /\ previous_led_millis' = t
                    /\ led_state' = IF led_state = LOW THEN HIGH ELSE LOW
               ELSE UNCHANGED <<previous_led_millis, led_state>>
       ELSE /\ led_state' = HIGH
            /\ UNCHANGED <<current_led_millis, previous_led_millis>>
    /\ led_pin' = led_state'

----------------------------------------------------------------------------
(* setup() *)

\* lines 64-76: connect_to_wifi(), ota_setup()
SetupWifi ==
    /\ pc = "setup_wifi"
    /\ \E wait \in SetupWaits, httpCode \in HttpCodes :
          ConnectToWifi(wait, httpCode)
    /\ pc' = "setup_input"
    /\ UNCHANGED <<led_state, current_led_millis, previous_led_millis,
                   last_state, new_state, ton_start_marker, tof_start_marker,
                   TON_running, TOF_running, approved_alarm_state, cycle,
                   at_cycle_start, thresholds, samples, history>>

\* lines 79-82: the first sample initialises last_state and new_state
SetupInput ==
    /\ pc = "setup_input"
    /\ \E raw \in BOOLEAN :
          /\ last_state' = raw
          /\ new_state' = raw
    /\ pc' = "setup_notify"
    /\ UNCHANGED <<now, led_state, led_pin, current_led_millis,
                   previous_led_millis, response, ton_start_marker,
                   tof_start_marker, TON_running, TOF_running,
                   approved_alarm_state, sent, cycle, at_cycle_start, thresholds, samples, history>>

\* lines 84-88: delay(1000) and the power-on notification
SetupPowerOn ==
    /\ pc = "setup_notify"
    /\ now' = Plus32(now, U32(SetupDelay))
    /\ \E httpCode \in HttpCodes : WebhookTrigger(PowerOnLabel, httpCode)
    /\ pc' = "sample"
    /\ UNCHANGED <<led_state, led_pin, current_led_millis, previous_led_millis,
                   last_state, new_state, ton_start_marker, tof_start_marker,
                   TON_running, TOF_running, approved_alarm_state, cycle,
                   at_cycle_start, thresholds, samples, history>>

----------------------------------------------------------------------------
(* loop() *)

\* lines 97-139: read the input, detect an edge
LoopSample ==
    /\ pc = "sample"
    /\ cycle < MaxCycles
    /\ \E raw \in BOOLEAN :
          LET e == EdgeDetection(raw, now)
          IN  /\ new_state' = raw
              /\ IF raw # last_state
                 THEN /\ TON_running' = e.TON
                      /\ TOF_running' = e.TOF
                      /\ ton_start_marker' = e.ton_marker
                      /\ tof_start_marker' = e.tof_marker
                      /\ last_state' = raw
                 ELSE UNCHANGED <<TON_running, TOF_running, ton_start_marker,
                                  tof_start_marker, last_state>>
              /\ ton_samples' = IF raw # last_state /\ e.TON
                                THEN {raw} ELSE ton_samples \cup {raw}
              /\ tof_samples' = IF raw # last_state /\ e.TOF
                                THEN {raw} ELSE tof_samples \cup {raw}
              /\ held' = IF raw # last_state THEN 0 ELSE held
    /\ cycle' = cycle + 1
    /\ at_cycle_start' = DebounceState
    /\ pc' = "ton"
    /\ UNCHANGED <<now, led_state, led_pin, current_led_millis,
                   previous_led_millis, response, approved_alarm_state, sent,
                   thresholds, reconnects>>

\* mutant: the expiry check without the TON_running guard of line 142
LoopTonUnguarded ==
    /\ pc = "ton"
    /\ IF TonExpired(now)
       THEN /\ TON_running' = FALSE
            /\ approved_alarm_state' = TRUE
            /\ held' = 0
            /\ pc' = "ton_send"
       ELSE /\ UNCHANGED <<TON_running, approved_alarm_state, held>>
            /\ pc' = "tof"
    /\ UNCHANGED <<now, led_state, led_pin, current_led_millis, previous_led_millis,
                   response, last_state, new_state, ton_start_marker,
                   tof_start_marker, TOF_running, sent, cycle, at_cycle_start,
                   thresholds, samples, reconnects>>

\* lines 141-147: the turn-on timer; on expiry the flag and the confirmed
\* state are updated, then the notification is sent
LoopTon ==
    /\ pc = "ton"
    /\ IF TON_running /\ TonExpired(now)
       THEN /\ TON_running' = FALSE
            /\ approved_alarm_state' = TRUE
            /\ held' = 0
            /\ pc' = "ton_send"
       ELSE /\ UNCHANGED <<TON_running, approved_alarm_state, held>>
            /\ pc' = "tof"
    /\ UNCHANGED <<now, led_state, led_pin, current_led_millis, previous_led_millis,
                   response, last_state, new_state, ton_start_marker,
                   tof_start_marker, TOF_running, sent, cycle, at_cycle_start,
                   thresholds, samples, reconnects>>

\* mutant: a failed send takes the transition back, so that it is tried
\* again in the next cycle
LoopTonSendRetry ==
    /\ pc = "ton_send"
    /\ \E httpCode \in HttpCodes :
          /\ WebhookTrigger(OpenLabel, httpCode)
          /\ TON_running' = (httpCode # HTTP_OK)
          /\ approved_alarm_state' = (httpCode = HTTP_OK)
    /\ pc' = "tof"
    /\ UNCHANGED <<now, led_state, led_pin, current_led_millis, previous_led_millis,
                   last_state, new_state, ton_start_marker, tof_start_marker,
                   TOF_running, cycle, at_cycle_start, thresholds, samples, history>>

\* lines 148-150: the notification of the expiry
LoopTonSend ==
    /\ pc = "ton_send"
    /\ \E httpCode \in HttpCodes : WebhookTrigger(OpenLabel, httpCode)
    /\ pc' = "tof"
    /\ UNCHANGED <<now, led_state, led_pin, current_led_millis, previous_led_millis,
                   last_state, new_state, ton_start_marker, tof_start_marker,
                   TON_running, TOF_running, approved_alarm_state, cycle,
                   at_cycle_start, thresholds, samples, history>>

\* mutant: the expiry check without the TOF_running guard of line 156
LoopTofUnguarded ==
    /\ pc = "tof"
    /\ IF TofExpired(now)
       THEN /\ TOF_running' = FALSE
            /\ approved_alarm_state' = FALSE
            /\ held' = 0
            /\ pc' = "tof_send"
       ELSE /\ UNCHANGED <<TOF_running, approved_alarm_state, held>>
            /\ pc' = "led"
    /\ UNCHANGED <<now, led_state, led_pin, current_led_millis, previous_led_millis,
                   response, last_state, new_state, ton_start_marker,
                   tof_start_marker, TON_running, sent, cycle, at_cycle_start,
                   thresholds, samples, reconnects>>

\* lines 155-161: the turn-off timer; on expiry the flag and the confirmed
\* state are updated, then the notification is sent
LoopTof ==
    /\ pc = "tof"
    /\ IF TOF_running /\ TofExpired(now)
       THEN /\ TOF_running' = FALSE
            /\ approved_alarm_state' = FALSE
            /\ held' = 0
            /\ pc' = "tof_send"
       ELSE /\ UNCHANGED <<TOF_running, approved_alarm_state, held>>
            /\ pc' = "led"
    /\ UNCHANGED <<now, led_state, led_pin, current_led_millis, previous_led_millis,
                   response, last_state, new_state, ton_start_marker,
                   tof_start_marker, TON_running, sent, cycle, at_cycle_start,
                   thresholds, samples, reconnects>>

\* lines 162-164: the notification of the expiry
LoopTofSend ==
    /\ pc = "tof_send"
    /\ \E httpCode \in HttpCodes : WebhookTrigger(ClosedLabel, httpCode)
    /\ pc' = "led"
    /\ UNCHANGED <<now, led_state, led_pin, current_led_millis, previous_led_millis,
                   last_state, new_state, ton_start_marker, tof_start_marker,
                   TON_running, TOF_running, approved_alarm_state, cycle,
                   at_cycle_start, thresholds, samples, history>>

\* lines 168-169: the LED
LoopLed ==
    /\ pc = "led"
    /\ ToggleInbuiltLedFast(now)
    /\ pc' = "wifi"
    /\ UNCHANGED <<now, response, last_state, new_state, ton_start_marker,
                   tof_start_marker, TON_running, TOF_running,
                   approved_alarm_state, sent, cycle, at_cycle_start, thresholds, samples, history>>

\* mutant: the notification sent by the network check itself, also when it
\* finds the network available
LoopWifiConnectedAnnounces ==
    /\ pc = "wifi"
    /\ \E httpCode \in HttpCodes : WebhookTrigger(WifiLabel, httpCode)
    /\ pc' = "delay"
    /\ UNCHANGED <<now, led_state, led_pin, current_led_millis,
                   previous_led_millis, last_state, new_state,
                   ton_start_marker, tof_start_marker, TON_running, TOF_running,
                   approved_alarm_state, cycle, at_cycle_start, thresholds,
                   samples, history>>

\* line 172, WiFi.status() == WL_CONNECTED: the while loop is left
LoopWifiConnected ==
    /\ pc = "wifi"
    /\ pc' = "delay"
    /\ UNCHANGED <<now, led_state, led_pin, current_led_millis,
                   previous_led_millis, response, last_state, new_state,
                   ton_start_marker, tof_start_marker, TON_running, TOF_running,
                   approved_alarm_state, sent, cycle, at_cycle_start, thresholds, samples, history>>

\* mutant: the reconnection pauses the timers, moving the start markers by
\* the time it was blocked
LoopWifiLostPausesTimers ==
    /\ pc = "wifi"
    /\ Count(sent, WifiLabel) < MaxConnects
    /\ \E wait \in ShortWaits, httpCode \in HttpCodes :
          /\ ConnectToWifi(wait, httpCode)
          /\ held' = IF last_state # approved_alarm_state
                     THEN held + ConnectDelay + Small(wait) ELSE held
          /\ ton_start_marker' =
                Plus32(ton_start_marker, Plus32(U32(ConnectDelay), wait))
          /\ tof_start_marker' =
                Plus32(tof_start_marker, Plus32(U32(ConnectDelay), wait))
    /\ reconnects' = reconnects + 1
    /\ pc' = "wifi"
    /\ UNCHANGED <<led_state, current_led_millis, previous_led_millis,
                   last_state, new_state, TON_running, TOF_running,
                   approved_alarm_state, cycle, at_cycle_start, thresholds,
                   samples>>

\* lines 172-176, WiFi.status() != WL_CONNECTED: reconnect, then test again
LoopWifiLost ==
    /\ pc = "wifi"
    /\ Count(sent, WifiLabel) < MaxConnects
    /\ \E wait \in ShortWaits, httpCode \in HttpCodes :
          /\ ConnectToWifi(wait, httpCode)
          /\ held' = IF last_state # approved_alarm_state
                     THEN held + ConnectDelay + Small(wait) ELSE held
    /\ reconnects' = reconnects + 1
    /\ pc' = "wifi"
    /\ UNCHANGED <<led_state, current_led_millis, previous_led_millis,
                   last_state, new_state, ton_start_marker, tof_start_marker,
                   TON_running, TOF_running, approved_alarm_state, cycle,
                   at_cycle_start, thresholds, samples>>

\* line 178: delay(100)
LoopPace ==
    /\ pc = "delay"
    /\ now' = Plus32(now, U32(loop_delay))
    /\ held' = IF last_state # approved_alarm_state
               THEN held + loop_delay ELSE held
    /\ reconnects' = 0
    /\ pc' = "sample"
    /\ UNCHANGED <<led_state, led_pin, current_led_millis, previous_led_millis,
                   response, last_state, new_state, ton_start_marker,
                   tof_start_marker, TON_running, TOF_running,
                   approved_alarm_state, sent, cycle, at_cycle_start,
                   thresholds, samples>>

Next ==
    \/ SetupWifi
    \/ SetupInput
    \/ SetupPowerOn
    \/ LoopSample
    \/ LoopTon
    \/ LoopTonSend
    \/ LoopTof
    \/ LoopTofSend
    \/ LoopLed
    \/ LoopWifiConnected
    \/ LoopWifiLost
    \/ LoopPace

Spec == Init /\ [][Next]_vars

SpecAnyThreshold == InitAnyThreshold /\ [][Next]_vars

SpecAnyTurnOn == InitAnyTurnOn /\ [][Next]_vars

----------------------------------------------------------------------------
(* Vocabulary of the properties *)

LastSent == IF sent = <<>> THEN "" ELSE sent[Len(sent)]

TransitionLabels == {OpenLabel, ClosedLabel}

\* the step hands label to webhookTrigger
Sends(label) == sent' # sent /\ sent'[Len(sent')] = label

\* the step sends no EnteredAlarm and no ClearedAlarm
NoTransitionSent == sent' = sent \/ sent' = Append(sent, WifiLabel)

\* the transition events of the current cycle, in order
TransitionsThisCycle ==
    SelectSeq(SentThisCycle, LAMBDA label : label \in TransitionLabels)

\* the thread is in loop()
InLoop ==
    pc \in {"sample", "ton", "ton_send", "tof", "tof_send", "led", "wifi",
            "delay"}

\* now - marker, as the expiry checks compute it
Elapsed(marker) == Minus32(now, marker)

----------------------------------------------------------------------------
(* Properties *)

\* C1: EnteredAlarm is sent only by the send of the turn-on block, which is
\* reached only from an expiry check that found the confirmed state false, the
\* turn-on timer running, raw sampled true in this cycle and in every cycle
\* since the rising edge that started the timer, and
\* now - ton_start_marker >= ton_threshold; that step stops the timer, and the
\* send is made once.  The timer is started only by a rising edge before
\* approval, which sets the marker to the time of that edge, so the time of
\* earlier episodes never counts.
C1_EnteredAlarmOnlyOnTonExpiry ==
    [][ /\ Sends(OpenLabel) =>
              (pc = "ton_send" /\ sent' = Append(sent, OpenLabel))
        /\ pc = "ton_send" => (Sends(OpenLabel) /\ pc' = "tof")
        /\ pc' = "ton_send" =>
              /\ pc = "ton"
              /\ ~approved_alarm_state /\ TON_running
              /\ new_state /\ ton_samples = {TRUE}
              /\ AtLeast(Elapsed(ton_start_marker), ton_threshold)
              /\ ~TON_running'
        /\ (~TON_running /\ TON_running') =>
              /\ pc = "sample"
              /\ ~last_state /\ new_state' /\ ~approved_alarm_state
              /\ ton_start_marker' = now
      ]_vars

\* EnteredAlarm has just been sent, in a cycle after the one of the rising edge
C1_Witness ==
    /\ pc = "tof"
    /\ TransitionsThisCycle = <<OpenLabel>>
    /\ at_cycle_start.TON /\ ~at_cycle_start.approved
    /\ approved_alarm_state /\ ~TON_running

\* C2: ClearedAlarm is sent only by the send of the turn-off block, which is
\* reached only from an expiry check that found the confirmed state true, the
\* turn-off timer running, raw sampled false in this cycle and in every cycle
\* since the falling edge that started the timer, and
\* now - tof_start_marker >= tof_threshold; that step stops the timer, and the
\* send is made once.
C2_ClearedAlarmOnlyOnTofExpiry ==
    [][ /\ Sends(ClosedLabel) =>
              (pc = "tof_send" /\ sent' = Append(sent, ClosedLabel))
        /\ pc = "tof_send" => (Sends(ClosedLabel) /\ pc' = "led")
        /\ pc' = "tof_send" =>
              /\ pc = "tof"
              /\ approved_alarm_state /\ TOF_running
              /\ ~new_state /\ tof_samples = {FALSE}
              /\ AtLeast(Elapsed(tof_start_marker), tof_threshold)
              /\ ~TOF_running'
        /\ (~TOF_running /\ TOF_running') =>
              /\ pc = "sample"
              /\ last_state /\ ~new_state' /\ approved_alarm_state
              /\ tof_start_marker' = now
      ]_vars

\* ClearedAlarm has just been sent, in a cycle after the one of the falling edge
C2_Witness ==
    /\ pc = "led"
    /\ TransitionsThisCycle = <<ClosedLabel>>
    /\ at_cycle_start.TOF /\ at_cycle_start.approved
    /\ ~approved_alarm_state /\ ~TOF_running

\* C3: scenario A.  From Cleared with the previous sample false, a rising edge
\* at t0 starts the turn-on timer; while raw stays true the timer keeps
\* running, no event is sent by a cycle whose expiry check sees
\* now - t0 < 1800, the first check that sees now - t0 >= 1800 leaves Armed
\* and sends EnteredAlarm once, and Armed stays, with no further event, while
\* raw stays true.
C3_ScenarioA ==
    [][ /\ (pc = "sample" /\ Cleared /\ ~last_state /\ new_state') =>
              (Confirming' /\ ton_start_marker' = now /\ sent' = sent)
        /\ (pc = "sample" /\ Confirming /\ new_state') =>
              (Confirming' /\ ton_start_marker' = ton_start_marker
                           /\ sent' = sent)
        /\ (pc = "ton" /\ Confirming
                       /\ ~AtLeast(Elapsed(ton_start_marker), 1800)) =>
              (Confirming' /\ sent' = sent /\ pc' = "tof")
        /\ (pc = "ton" /\ Confirming
                       /\ AtLeast(Elapsed(ton_start_marker), 1800)) =>
              (Armed' /\ sent' = sent /\ pc' = "ton_send")
        /\ pc = "ton_send" =>
              (Armed' /\ sent' = Append(sent, OpenLabel) /\ pc' = "tof")
        /\ (pc \in {"tof", "led", "wifi", "delay"} /\ Confirming) =>
              (Confirming' /\ ton_start_marker' = ton_start_marker
                           /\ NoTransitionSent)
        /\ (InLoop /\ pc # "ton_send" /\ Armed /\ last_state
                   /\ (pc = "sample" => new_state')) =>
              (Armed' /\ last_state' /\ NoTransitionSent)
      ]_vars

\* the expiry check saw exactly 1800 ms and EnteredAlarm was sent
C3_Witness ==
    /\ pc = "tof"
    /\ Armed /\ new_state
    /\ TransitionsThisCycle = <<OpenLabel>>
    /\ Elapsed(ton_start_marker) = U32(1800)

\* C4: scenario C.  From Armed, a falling edge at t0 starts the turn-off
\* timer; while raw stays false no event is sent by a cycle whose expiry
\* check sees now - t0 < 1600, the first check that sees now - t0 >= 1600
\* leaves Cleared and sends ClearedAlarm once, and Cleared stays, with no
\* further event, while raw stays false.
C4_ScenarioC ==
    [][ /\ (pc = "sample" /\ Armed /\ last_state /\ ~new_state') =>
              (Clearing' /\ tof_start_marker' = now /\ sent' = sent)
        /\ (pc = "sample" /\ Clearing /\ ~new_state') =>
              (Clearing' /\ tof_start_marker' = tof_start_marker
                         /\ sent' = sent)
        /\ (pc \in {"ton", "led", "wifi", "delay"} /\ Clearing) =>
              (Clearing' /\ tof_start_marker' = tof_start_marker
                         /\ NoTransitionSent)
        /\ (pc = "tof" /\ Clearing
                       /\ ~AtLeast(Elapsed(tof_start_marker), 1600)) =>
              (Clearing' /\ sent' = sent /\ pc' = "led")
        /\ (pc = "tof" /\ Clearing
                       /\ AtLeast(Elapsed(tof_start_marker), 1600)) =>
              (Cleared' /\ sent' = sent /\ pc' = "tof_send")
        /\ pc = "tof_send" =>
              (Cleared' /\ sent' = Append(sent, ClosedLabel) /\ pc' = "led")
        /\ (InLoop /\ pc # "tof_send" /\ Cleared /\ ~last_state
                   /\ (pc = "sample" => ~new_state')) =>
              (Cleared' /\ ~last_state' /\ NoTransitionSent)
      ]_vars

\* the expiry check saw exactly 1600 ms and ClearedAlarm was sent
C4_Witness ==
    /\ pc = "led"
    /\ Cleared /\ ~new_state
    /\ TransitionsThisCycle = <<ClosedLabel>>
    /\ Elapsed(tof_start_marker) = U32(1600)

\* C5: cancellation.  A cycle that begins in Confirming and samples false
\* before the turn-on threshold has elapsed ends the episode in Cleared with
\* no transition event; a cycle that begins in Clearing and samples true before
\* the turn-off threshold has elapsed ends it in Armed with no transition event.
C5_Cancellation ==
    cycle >= 1 =>
      /\ ( /\ at_cycle_start.TON /\ ~at_cycle_start.approved
           /\ ~new_state
           /\ ~AtLeast(Minus32(at_cycle_start.time, at_cycle_start.ton_marker),
                       ton_threshold) )
         => (Cleared /\ TransitionsThisCycle = <<>>)
      /\ ( /\ at_cycle_start.TOF /\ at_cycle_start.approved
           /\ new_state
           /\ ~AtLeast(Minus32(at_cycle_start.time, at_cycle_start.tof_marker),
                       tof_threshold) )
         => (Armed /\ TransitionsThisCycle = <<>>)

\* scenario D: a turn-on timer that had run for 1000 ms or more was cancelled
C5_Witness ==
    /\ pc = "delay"
    /\ at_cycle_start.TON /\ ~new_state /\ Cleared
    /\ AtLeast(Minus32(at_cycle_start.time, at_cycle_start.ton_marker), 1000)
    /\ ~AtLeast(Minus32(at_cycle_start.time, at_cycle_start.ton_marker),
                ton_threshold)

\* C6: the two timers never run at the same time, at any point of a cycle, and
\* a timer block leaves the other timer's flag alone.
C6_TimersMutuallyExclusive ==
    /\ [](~(TON_running /\ TOF_running))
    /\ [][ /\ pc \in {"ton", "ton_send"} => TOF_running' = TOF_running
           /\ pc \in {"tof", "tof_send"} => TON_running' = TON_running ]_vars

\* the turn-off timer has just been started by an edge, the turn-on timer is off
C6_Witness ==
    /\ pc = "ton"
    /\ TOF_running /\ ~at_cycle_start.TOF
    /\ ~TON_running

\* the debounce state is what it was when the current cycle began
UnchangedThisCycle ==
    /\ approved_alarm_state = at_cycle_start.approved
    /\ TON_running = at_cycle_start.TON
    /\ TOF_running = at_cycle_start.TOF
    /\ last_state = at_cycle_start.last
    /\ ton_start_marker = at_cycle_start.ton_marker
    /\ tof_start_marker = at_cycle_start.tof_marker

\* the current cycle began in Armed and sampled true, or began in Cleared with
\* the previous sample false and sampled false
IdleCycle ==
    /\ cycle >= 1
    /\ ~at_cycle_start.TON /\ ~at_cycle_start.TOF
    /\ \/ at_cycle_start.approved /\ new_state
       \/ ~at_cycle_start.approved /\ ~at_cycle_start.last /\ ~new_state

\* C7 as stated: such a cycle changes nothing of the debounce state and sends
\* no notification at all.
C7_IdleCycleSendsNothing ==
    IdleCycle => (UnchangedThisCycle /\ SentThisCycle = <<>>)

\* C7, amended: such a cycle changes nothing of the debounce state and sends no
\* EnteredAlarm and no ClearedAlarm; all it can send is the connected-to-WiFi
\* notification, when the network check that ends the cycle finds the network
\* down.
C7_IdleCycleNoTransition ==
    IdleCycle =>
      /\ UnchangedThisCycle
      /\ \A i \in 1..Len(SentThisCycle) : SentThisCycle[i] = WifiLabel
      /\ pc \in {"ton", "ton_send", "tof", "tof_send", "led"} =>
            SentThisCycle = <<>>

\* an Armed cycle that sampled true, lost the network and reconnected
C7_Witness ==
    /\ pc = "delay"
    /\ IdleCycle /\ Armed /\ new_state
    /\ SentThisCycle = <<WifiLabel>>

\* C8: when a timer expires, the confirmed state and the running flag are
\* updated before the send; the send is one call and leaves the debounce
\* state alone whatever webhookTrigger returns; a transition label is sent
\* nowhere else, and the send is reached only by the transition it reports,
\* so a failed send is never repeated.
C8_FailedSendNotRetried ==
    /\ [](pc = "ton_send" => (approved_alarm_state /\ ~TON_running))
    /\ [](pc = "tof_send" => (~approved_alarm_state /\ ~TOF_running))
    /\ [][ /\ pc = "ton_send" =>
                 /\ sent' = Append(sent, OpenLabel)
                 /\ pc' = "tof"
                 /\ UNCHANGED <<approved_alarm_state, TON_running, TOF_running,
                                last_state, ton_start_marker, tof_start_marker>>
           /\ pc = "tof_send" =>
                 /\ sent' = Append(sent, ClosedLabel)
                 /\ pc' = "led"
                 /\ UNCHANGED <<approved_alarm_state, TON_running, TOF_running,
                                last_state, ton_start_marker, tof_start_marker>>
           /\ Sends(OpenLabel) => pc = "ton_send"
           /\ Sends(ClosedLabel) => pc = "tof_send"
           /\ pc' = "ton_send" =>
                 (~approved_alarm_state /\ approved_alarm_state')
           /\ pc' = "tof_send" =>
                 (approved_alarm_state /\ ~approved_alarm_state')
         ]_vars

\* a cycle after the one whose EnteredAlarm send failed: nothing is sent again
C8_Witness ==
    /\ pc = "led"
    /\ LastSent = OpenLabel /\ response # HTTP_OK
    /\ SentThisCycle = <<>>
    /\ Armed

\* C9: no cycle sends more than one transition event, whatever the thresholds.
C9_AtMostOneEventPerCycle ==
    Len(TransitionsThisCycle) <= 1

\* both thresholds zero: a rising edge and its EnteredAlarm in the same cycle
C9_Witness ==
    /\ pc = "delay"
    /\ ton_threshold = 0 /\ tof_threshold = 0
    /\ ~at_cycle_start.TON /\ ~at_cycle_start.approved
    /\ TransitionsThisCycle = <<OpenLabel>>

\* the LED block holds the LED steady
LedHeldSteady == led_state' = HIGH /\ led_pin' = HIGH

\* the LED block blinks: it toggles the LED once led_interval has passed
LedBlinking ==
    /\ led_state' = IF AtLeast(Elapsed(previous_led_millis), led_interval)
                    THEN (IF led_state = LOW THEN HIGH ELSE LOW)
                    ELSE led_state
    /\ led_pin' = led_state'

\* C10 as stated: the LED blinks if and only if the state is Armed; in Cleared,
\* Confirming and Clearing it is held steady.
C10_BlinkingIffArmed ==
    [][ pc = "led" => IF Armed THEN LedBlinking ELSE LedHeldSteady ]_vars

\* C10, amended: the LED mode is a function of the alarm state only; the LED
\* blinks if and only if approved_alarm_state is true, that is in Armed and in
\* Clearing; in Cleared and Confirming it is held steady.
C10_BlinkingIffApproved ==
    [][ pc = "led" =>
           IF Armed \/ Clearing THEN LedBlinking ELSE LedHeldSteady ]_vars

\* the LED has been switched off by the LED block of a Clearing cycle
C10_Witness ==
    /\ pc = "wifi"
    /\ Clearing
    /\ led_state = LOW /\ led_pin = LOW

\* the step leaves the confirmed state, the timers and the recorded sample alone
DebounceUnchanged ==
    UNCHANGED <<approved_alarm_state, TON_running, TOF_running, last_state,
                ton_start_marker, tof_start_marker>>

\* C11: the power-on notification is sent exactly once: by setup(), after the
\* first connection and its notification, before the first cycle and so
\* before any EnteredAlarm or ClearedAlarm; no cycle and no reconnection sends
\* it again, and sending it changes neither the alarm state nor the timers.
C11_PowerOnSentOnce ==
    /\ [](Count(sent, PowerOnLabel) = IF InLoop THEN 1 ELSE 0)
    /\ [](InLoop => (sent[1] = WifiLabel /\ sent[2] = PowerOnLabel))
    /\ [][ Sends(PowerOnLabel) =>
              /\ pc = "setup_notify" /\ pc' = "sample"
              /\ cycle = 0
              /\ sent = <<WifiLabel>>
              /\ DebounceUnchanged
              /\ Cleared /\ Cleared'
         ]_vars

\* well into loop(), after an EnteredAlarm and two reconnections: the power-on
\* notification is still the one of setup()
C11_Witness ==
    /\ InLoop /\ cycle >= 2
    /\ Count(sent, OpenLabel) = 1
    /\ Count(sent, WifiLabel) = 3
    /\ Count(sent, PowerOnLabel) = 1

\* the expiry blocks of the current cycle have run
AfterTon == cycle >= 1 /\ pc \in {"tof", "tof_send", "led", "wifi", "delay", "sample"}
AfterTof == cycle >= 1 /\ pc \in {"led", "wifi", "delay", "sample"}

\* C12: an outage neither pauses nor resets the timers.  The reconnection that
\* blocks the end of a cycle leaves the running flags, the start markers, the
\* confirmed state and the recorded sample alone while the clock advances by
\* the time it blocks; and when a timer was running when a cycle began,
\* whatever time the cycle before was blocked, and the sample shows no edge,
\* that cycle confirms the transition if and only if
\* now - start marker >= threshold, the blocked time included.
C12_TimersRunThroughOutage ==
    /\ [][ (pc = "wifi" /\ pc' = "wifi") =>
              /\ DebounceUnchanged
              /\ AtLeast(Minus32(now', now), ConnectDelay)
              /\ reconnects' = reconnects + 1
         ]_vars
    /\ []( (AfterTon /\ at_cycle_start.TON /\ new_state) =>
             IF AtLeast(Minus32(at_cycle_start.time, at_cycle_start.ton_marker),
                        ton_threshold)
             THEN Armed /\ TransitionsThisCycle = <<OpenLabel>>
             ELSE Confirming /\ TransitionsThisCycle = <<>>
                  /\ ton_start_marker = at_cycle_start.ton_marker )
    /\ []( (AfterTof /\ at_cycle_start.TOF /\ ~new_state) =>
             IF AtLeast(Minus32(at_cycle_start.time, at_cycle_start.tof_marker),
                        tof_threshold)
             THEN Cleared /\ TransitionsThisCycle = <<ClosedLabel>>
             ELSE Clearing /\ TransitionsThisCycle = <<>>
                  /\ tof_start_marker = at_cycle_start.tof_marker )

\* the turn-on timer was started in the first cycle, which then reconnected
\* twice; the second cycle, 100 ms of unblocked time later, confirms the alarm
C12_Witness ==
    /\ pc = "tof" /\ cycle = 2
    /\ at_cycle_start.TON
    /\ sent = <<WifiLabel, PowerOnLabel, WifiLabel, WifiLabel, OpenLabel>>
    /\ Armed

\* C13: the elapsed time of a timer is (now - start marker) modulo 2^32.
\* While a timer runs, held is the time that has really passed since the edge
\* that started it, counted delay by delay without the clock; the difference
\* of the two clock readings equals it also when the clock has wrapped in
\* between, and an expiry check finds the timer expired exactly when
\* held >= threshold.
C13_WraparoundSafe ==
    /\ [](TON_running => Elapsed(ton_start_marker) = U32(held))
    /\ [](TOF_running => Elapsed(tof_start_marker) = U32(held))
    /\ [][ /\ (~TON_running /\ TON_running') =>
                 (held' = 0 /\ ton_start_marker' = now)
           /\ (~TOF_running /\ TOF_running') =>
                 (held' = 0 /\ tof_start_marker' = now)
           /\ (pc = "ton" /\ TON_running) =>
                 (pc' = "ton_send" <=> held >= ton_threshold)
           /\ (pc = "tof" /\ TOF_running) =>
                 (pc' = "tof_send" <=> held >= tof_threshold)
         ]_vars

\* the clock wrapped between the start of the turn-on timer and the check
\* that found it expired, 1800 ms later
C13_Witness ==
    /\ pc = "tof"
    /\ TransitionsThisCycle = <<OpenLabel>>
    /\ ton_start_marker[1] = Limb - 1 /\ now[1] = 0
    /\ Elapsed(ton_start_marker) = U32(ton_threshold_ms)

\* the clock wrapped while the turn-on timer was running, and the check after
\* the wrap found it not yet expired
C13_WitnessNotEarly ==
    /\ pc = "tof"
    /\ Confirming
    /\ ton_start_marker[1] = Limb - 1 /\ now[1] = 0
    /\ held > 0 /\ held < ton_threshold_ms

\* C14: every completed call of connect_to_wifi(), the one of setup() and each
\* reconnection, sends the connected-to-WiFi notification exactly once and
\* nothing else sends it; a reconnection is followed by another network check,
\* and the pacing delay and the next sample are reached only from a check that
\* found the network available, which sends nothing; so a cycle has sent as
\* many such notifications as it has reconnected, none when the network was
\* there.
C14_OneNotificationPerConnection ==
    /\ [](cycle = 0 =>
            Count(sent, WifiLabel) = IF pc = "setup_wifi" THEN 0 ELSE 1)
    /\ []((cycle >= 1 /\ pc # "sample") =>
            Count(SentThisCycle, WifiLabel) = reconnects)
    /\ [][ /\ Sends(WifiLabel) =>
                 /\ pc \in {"setup_wifi", "wifi"}
                 /\ sent' = Append(sent, WifiLabel)
                 /\ pc = "wifi" => (pc' = "wifi" /\ reconnects' = reconnects + 1)
           /\ reconnects' = reconnects + 1 => Sends(WifiLabel)
           /\ pc' = "delay" => (pc = "wifi" /\ sent' = sent)
           /\ pc' = "sample" => (pc = "delay" /\ sent' = sent)
                                 \/ pc = "setup_notify"
         ]_vars

\* a cycle that lost the network twice and has sent two notifications
C14_Witness ==
    /\ pc = "delay"
    /\ reconnects = 2
    /\ SentThisCycle = <<WifiLabel, WifiLabel>>

\* a cycle that found the network available and has sent nothing, after a
\* cycle that had to reconnect
C14_WitnessAvailable ==
    /\ pc = "delay"
    /\ reconnects = 0
    /\ cycle >= 2 /\ sent[at_cycle_start.nsent] = WifiLabel
    /\ SentThisCycle = <<>>

\* C15: the machine starts in Cleared whatever the first sample is, and
\* whenever no timer is running the confirmed state equals the last recorded
\* sample: Cleared implies the last sample is false, Armed implies it is true.
C15_IdleStateEqualsLastSample ==
    /\ cycle = 0 => Cleared
    /\ Cleared => ~last_state
    /\ Armed => last_state

\* C16: confirmation is live.  The finite form of "raw sampled true in every
\* cycle from some point on leads to Armed": once the input has been sampled
\* true in loop(), with the alarm not confirmed, for the turn-on threshold or
\* longer, the expiry blocks of the cycle leave the alarm confirmed; and once
\* it has been sampled false, with the alarm confirmed, for the turn-off
\* threshold or longer, they leave it not confirmed.  The steps of the model
\* always return, as the claim supposes of the network and of the sends.
C16_HeldLevelIsConfirmed ==
    /\ (pc \in {"ton_send", "tof", "tof_send", "led"}
           /\ new_state /\ held >= ton_threshold) => approved_alarm_state
    /\ (pc \in {"tof_send", "led"}
           /\ ~new_state /\ held >= tof_threshold) => ~approved_alarm_state

\* C17: the edge is processed before the expiry checks, so an edge wins over
\* an expiry.  A cycle that begins in Confirming with the turn-on time
\* already at or past its threshold (the previous cycle was blocked) and
\* samples false ends the episode in Cleared with no transition event; a cycle
\* that begins in Clearing with the turn-off time at or past its threshold and
\* samples true ends it in Armed with no transition event.
C17_EdgeWinsOverExpiry ==
    cycle >= 1 =>
      /\ ( /\ at_cycle_start.TON /\ ~at_cycle_start.approved
           /\ ~new_state
           /\ AtLeast(Minus32(at_cycle_start.time, at_cycle_start.ton_marker),
                      ton_threshold) )
         => (Cleared /\ TransitionsThisCycle = <<>>)
      /\ ( /\ at_cycle_start.TOF /\ at_cycle_start.approved
           /\ new_state
           /\ AtLeast(Minus32(at_cycle_start.time, at_cycle_start.tof_marker),
                      tof_threshold) )
         => (Armed /\ TransitionsThisCycle = <<>>)

\* a turn-on timer that had run past 1800 ms through an outage was cancelled by
\* the falling edge of the next cycle
C17_Witness ==
    /\ pc = "delay"
    /\ ton_threshold = ton_threshold_ms
    /\ at_cycle_start.TON
    /\ ~new_state /\ Cleared
    /\ AtLeast(Minus32(at_cycle_start.time, at_cycle_start.ton_marker),
               ton_threshold)
    /\ Count(sent, OpenLabel) = 0

\* a turn-off timer that had run past 1600 ms through an outage was cancelled
\* by the rising edge of the next cycle
C17_WitnessTurnOff ==
    /\ pc = "delay"
    /\ tof_threshold = tof_threshold_ms
    /\ at_cycle_start.TOF
    /\ new_state /\ Armed
    /\ AtLeast(Minus32(at_cycle_start.time, at_cycle_start.tof_marker),
               tof_threshold)
    /\ Count(sent, ClosedLabel) = 0

\* the transition events sent so far, in order
Transitions ==
    SelectSeq(sent, LAMBDA label : label \in TransitionLabels)

\* C18: the transition events alternate and start with EnteredAlarm: the
\* first, third, ... is EnteredAlarm and the second, fourth, ... is
\* ClearedAlarm.
C18_EventsAlternate ==
    \A i \in 1..Len(Transitions) :
        Transitions[i] = IF i % 2 = 1 THEN OpenLabel ELSE ClosedLabel

\* a second EnteredAlarm has been sent, after the ClearedAlarm of the first
C18_Witness ==
    Transitions = <<OpenLabel, ClosedLabel, OpenLabel>>

\* C19: the three booleans always encode one of the four states.  A running
\* turn-on timer implies that the alarm is not confirmed and the last sample
\* is true; a running turn-off timer implies that the alarm is confirmed and
\* the last sample is false.
C19_FlagsEncodeFourStates ==
    /\ TON_running => (~approved_alarm_state /\ last_state)
    /\ TOF_running => (approved_alarm_state /\ ~last_state)
    /\ Cleared \/ Confirming \/ Armed \/ Clearing

\* the turn-off timer runs across the end of a cycle, after a confirmed alarm
C19_Witness ==
    /\ pc = "delay"
    /\ Clearing /\ ~last_state
    /\ Transitions = <<OpenLabel>>

\* the turn-on timer runs across the end of a cycle
C19_WitnessConfirming ==
    /\ pc = "delay"
    /\ Confirming /\ last_state

=============================================================================
